---- MODULE Spec2Model ----
(***************************************************************************)
(* Model of src/app.py: ImageFilterApp, a Tkinter window holding two image *)
(* handles (original_image, processed_image), a preview bitmap             *)
(* (display_image) drawn on a canvas, and eight buttons whose commands are *)
(* the handlers upload_image, save_image, reset_image and the five         *)
(* apply_* filters.  The Tk event loop dispatches one button command at a  *)
(* time; pc follows the position inside the running handler: "idle"        *)
(* between events, "display" while display_image_on_canvas is about to run *)
(* on arg, "resume" when it has returned or raised into its caller.        *)
(*                                                                         *)
(* An image is a record: handle (object identity), src (the file it was    *)
(* decoded from), ops (the library transforms applied to the decoded       *)
(* pixels), mode, size, and ok (whether its pixel data can be loaded: PIL  *)
(* opens lazily, so a truncated file opens but every load() of it raises). *)
(***************************************************************************)
EXTENDS Integers, Sequences, FiniteSets, TLC

VARIABLES original_image, processed_image, display_image, canvas_image,
          canvas_width, canvas_height,
          upload_btn, save_btn, reset_btn, filter_buttons, status_label,
          dialog, escaped, saved_file, encoded,
          last, pc, arg, raised, pre

vars == <<original_image, processed_image, display_image, canvas_image,
          canvas_width, canvas_height,
          upload_btn, save_btn, reset_btn, filter_buttons, status_label,
          dialog, escaped, saved_file, encoded,
          last, pc, arg, raised, pre>>

None == [none |-> TRUE]
NORMAL == "normal"
DISABLED == "disabled"

(***************************************************************************)
(* The files the open dialog can return.  kind "image" decodes; kind       *)
(* "truncated" has a valid header but incomplete pixel data (Image.open    *)
(* succeeds, load() raises OSError); kind "text" is not an image at all    *)
(* (Image.open raises UnidentifiedImageError).                             *)
(***************************************************************************)
Files ==
  [ photo |-> [kind |-> "image",     mode |-> "RGB", size |-> <<4000, 3000>>],
    strip |-> [kind |-> "image",     mode |-> "P",   size |-> <<2000, 1>>],
    cut   |-> [kind |-> "truncated", mode |-> "RGB", size |-> <<640, 480>>],
    notes |-> [kind |-> "text",      mode |-> "",    size |-> <<0, 0>>] ]

OpenPaths == DOMAIN Files
SavePaths == {"out.png", "out.jpg"}
Cancelled == ""

Handles == 1..3

HandleOf(image) == IF image = None THEN {} ELSE {image.handle}

\* A newly allocated object is distinct from every object still referenced.
Fresh(live) == CHOOSE h \in Handles \ live : \A g \in Handles \ live : h <= g

Pixels(image) == [src |-> image.src, ops |-> image.ops]

Ok(image) == [raised |-> FALSE, img |-> image]
Raise == [raised |-> TRUE, img |-> None]


(***************************************************************************)
(* The imaging library, as far as the handlers use it.  Each call returns  *)
(* [raised, img]: raised is TRUE when the call raises an exception.        *)
(***************************************************************************)
\* Image.open(file_path): reads the header only.
Image_open(file_path, h) ==
  IF Files[file_path].kind = "text" THEN Raise
  ELSE Ok([handle |-> h, src |-> file_path, ops |-> <<>>,
           mode |-> Files[file_path].mode, size |-> Files[file_path].size,
           ok |-> Files[file_path].kind = "image"])

\* image.copy(): loads the pixel data, returns a new object with the same pixels.
Image_copy(image, h) ==
  IF ~image.ok THEN Raise ELSE Ok([image EXCEPT !.handle = h])

\* image.convert(mode): a copy when the mode is already the one asked for.
Image_convert(image, mode, h) ==
  IF ~image.ok THEN Raise
  ELSE IF image.mode = mode THEN Image_copy(image, h)
  ELSE Ok([image EXCEPT !.handle = h, !.mode = mode,
                        !.ops = Append(@, IF mode = "L" THEN "convert_L" ELSE "convert_RGB")])

\* image.filter(kernel): the built-in kernels refuse palette images.
Image_filter(image, kernel, h) ==
  IF ~image.ok \/ image.mode = "P" THEN Raise
  ELSE Ok([image EXCEPT !.handle = h, !.ops = Append(@, kernel)])

\* image.quantize(colors=64): a palette image.
Image_quantize(image, h) ==
  IF ~image.ok THEN Raise
  ELSE Ok([image EXCEPT !.handle = h, !.mode = "P", !.ops = Append(@, "quantize_64")])

\* ImageEnhance.Color(image).enhance(1.2)
Color_enhance(image, h) ==
  IF ~image.ok THEN Raise
  ELSE Ok([image EXCEPT !.handle = h, !.ops = Append(@, "color_1.2")])

\* image.save(file_path): the format follows the extension; the JPEG encoder
\* refuses palette and alpha images.
Image_save(image, file_path) ==
  IF ~image.ok \/ (file_path = "out.jpg" /\ image.mode \in {"P", "RGBA"}) THEN Raise
  ELSE Ok(image)

(***************************************************************************)
(* The five transforms, as the handlers compute them from their source.    *)
(***************************************************************************)
black_white(image, h) ==
  LET gray == Image_convert(image, "L", h)
  IN IF gray.raised THEN Raise ELSE Image_convert(gray.img, "RGB", h)

blur(image, h) == Image_filter(image, "BLUR", h)

sharpen(image, h) == Image_filter(image, "SHARPEN", h)

cartoon(image, h) ==
  LET img == Image_copy(image, h)
      rgb == IF img.img.mode # "RGB" THEN Image_convert(img.img, "RGB", h) ELSE img
      quantized == Image_quantize(rgb.img, h)
      colour == Image_convert(quantized.img, "RGB", h)
      edged == Image_filter(colour.img, "EDGE_ENHANCE_MORE", h)
  IN IF img.raised THEN Raise
     ELSE IF rgb.raised THEN Raise
     ELSE IF quantized.raised THEN Raise
     ELSE IF colour.raised THEN Raise
     ELSE IF edged.raised THEN Raise
     ELSE Color_enhance(edged.img, h)

edge_detection(image, h) ==
  LET gray == Image_convert(image, "L", h)
      edges == Image_filter(gray.img, "FIND_EDGES", h)
  IN IF gray.raised THEN Raise
     ELSE IF edges.raised THEN Raise
     ELSE Image_convert(edges.img, "RGB", h)

\* The transform behind each filter button.
Transform(event, image, h) ==
  CASE event = "black_white" -> black_white(image, h)
    [] event = "blur" -> blur(image, h)
    [] event = "sharpen" -> sharpen(image, h)
    [] event = "cartoon" -> cartoon(image, h)
    [] event = "edge_detection" -> edge_detection(image, h)

(***************************************************************************)
(* Preview scaling (display_image_on_canvas).  The scale is the fraction   *)
(* <<n, d>>, 1.0 being <<1, 1>>; int(x * scale) truncates toward zero.     *)
(*                                                                         *)
(* The code computes n / d and x * (n / d) in IEEE double precision, each  *)
(* rounded to nearest.  The rounding shows in int() only when the exact    *)
(* product is an integer p: int(49 * (1 / 49)) is 0.  RoundsBelow decides  *)
(* that case exactly, in integers: the quotient keeps 53 significant bits, *)
(* so with 2^-j <= n / d < 2^(1-j) it is rounded at the bit 2^-(52+j), and *)
(* r, the remainder of n * 2^(52+j) by d, tells the direction and the size *)
(* of its error (r / d of that bit, downward when 2r < d); the product     *)
(* x * r / d of these bits then falls below p when it exceeds half the     *)
(* gap between p and the double under p.                                   *)
(***************************************************************************)
DefaultCanvasWidth == 800
DefaultCanvasHeight == 500
Margin == 20

EffectiveWidth(w) == IF w <= 1 THEN DefaultCanvasWidth ELSE w
EffectiveHeight(h) == IF h <= 1 THEN DefaultCanvasHeight ELSE h

\* Scale without the 1.0 cap: a small image is enlarged to fill the canvas.
ScaleUncapped(cw, ch, iw, ih) ==
  LET wn == cw - Margin
      hn == ch - Margin
  IN IF wn * ih <= hn * iw THEN <<wn, iw>> ELSE <<hn, ih>>

\* min(scale_w, scale_h, 1.0) with scale_w = (cw - 20) / iw, scale_h = (ch - 20) / ih
Scale(cw, ch, iw, ih) ==
  LET wn == cw - Margin
      hn == ch - Margin
      sw == IF wn * ih <= hn * iw THEN <<wn, iw>> ELSE <<hn, ih>>
  IN IF sw[1] >= sw[2] THEN <<1, 1>> ELSE sw

Trunc(p, q) == IF p >= 0 THEN p \div q ELSE -((-p) \div q)

RECURSIVE Pow2(_)
Pow2(e) == IF e = 0 THEN 1 ELSE 2 * Pow2(e - 1)

RECURSIVE PowMod2(_, _)
PowMod2(k, d) == IF k = 0 THEN 1 % d ELSE (2 * PowMod2(k - 1, d)) % d

RECURSIVE Log2(_)
Log2(n) == IF n < 2 THEN 0 ELSE 1 + Log2(n \div 2)

\* the least j >= from with n * 2^j >= d
RECURSIVE Shift(_, _, _)
Shift(n, d, from) == IF n * Pow2(from) >= d THEN from ELSE Shift(n, d, from + 1)

\* For 0 < n < d and x * n / d a positive integer p: the double x * (n / d)
\* is less than p.
RoundsBelow(x, n, d) ==
  LET p == (x * n) \div d
      j == Shift(n, d, 1)
      r == ((n % d) * PowMod2(52 + j, d)) % d
      gap == Log2(p) + j
      half == IF Pow2(Log2(p)) = p THEN 2 * x ELSE x
  IN /\ r # 0
     /\ 2 * r < d
     /\ Pow2(gap) < half
     /\ 2 * half * r > d * Pow2(gap)

\* int(x * scale)
IntTimes(x, scale) ==
  LET p == x * scale[1]
      q == scale[2]
  IN IF scale = <<1, 1>> THEN x
     ELSE IF p > 0 /\ p % q = 0 /\ RoundsBelow(x, scale[1], q) THEN (p \div q) - 1
     ELSE Trunc(p, q)

(***************************************************************************)
(* State after __init__ and create_widgets.                                *)
(***************************************************************************)
Init ==
  /\ original_image = None
  /\ processed_image = None
  /\ display_image = None
  /\ canvas_image = None
  /\ canvas_width = 1
  /\ canvas_height = 1
  /\ upload_btn = NORMAL
  /\ save_btn = DISABLED
  /\ reset_btn = NORMAL
  /\ filter_buttons = DISABLED
  /\ status_label = <<"Please upload an image to get started">>
  /\ dialog = "none"
  /\ escaped = FALSE
  /\ saved_file = None
  /\ encoded = None
  /\ last = "init"
  /\ pc = "idle"
  /\ arg = None
  /\ raised = FALSE
  /\ pre = None

Snapshot ==
  [original_image |-> original_image, processed_image |-> processed_image,
   display_image |-> display_image, canvas_image |-> canvas_image,
   filter_buttons |-> filter_buttons, save_btn |-> save_btn]

\* The event loop dispatches a button command.  While the handler runs, pre
\* keeps the state it started from.
Begin(event) ==
  /\ pc = "idle"
  /\ last' = event
  /\ raised' = FALSE
  /\ UNCHANGED <<display_image, canvas_image, canvas_width, canvas_height,
                 upload_btn, reset_btn>>

\* The handler returns to the event loop, having shown dialog d (or none).
Return(d) ==
  pc' = "idle" /\ dialog' = d /\ escaped' = FALSE /\ arg' = None /\ pre' = None

\* An exception leaves the handler uncaught: Tk reports it on stderr.
Escape ==
  pc' = "idle" /\ dialog' = "none" /\ escaped' = TRUE /\ arg' = None /\ pre' = None

\* The handler calls self.display_image_on_canvas(image).
Display(image) ==
  /\ pc' = "display" /\ dialog' = "none" /\ escaped' = FALSE /\ arg' = image
  /\ pre' = Snapshot

\* A click on a disabled button runs no command.
Ignored ==
  /\ Return("none")
  /\ saved_file' = None
  /\ encoded' = None
  /\ UNCHANGED <<original_image, processed_image, filter_buttons, save_btn, status_label>>

Live == HandleOf(original_image) \cup HandleOf(processed_image)

upload_image(file_path) ==
  /\ Begin("upload")
  /\ saved_file' = None
  /\ encoded' = None
  /\ UNCHANGED status_label
  /\ IF file_path = Cancelled
     THEN /\ Return("none")
          /\ UNCHANGED <<original_image, processed_image, filter_buttons, save_btn>>
     ELSE LET opened == Image_open(file_path, Fresh(Live))
          IN IF opened.raised
             THEN /\ Return("error")
                  /\ UNCHANGED <<original_image, processed_image, filter_buttons, save_btn>>
             ELSE LET copy == Image_copy(opened.img,
                                Fresh({opened.img.handle} \cup HandleOf(processed_image)))
                  IN /\ original_image' = opened.img
                     /\ IF copy.raised
                        THEN /\ Return("error")
                             /\ UNCHANGED <<processed_image, filter_buttons, save_btn>>
                        ELSE /\ processed_image' = copy.img
                             /\ filter_buttons' = NORMAL
                             /\ save_btn' = NORMAL
                             /\ Display(opened.img)

ClickUpload ==
  \E file_path \in OpenPaths \cup {Cancelled} :
    IF upload_btn = DISABLED THEN Begin("upload") /\ Ignored ELSE upload_image(file_path)

(***************************************************************************)
(* The five filter handlers share one shape: guard on original_image,      *)
(* transform the original, assign processed_image, re-render, set status.  *)
(***************************************************************************)
ApplyFilter(event) ==
  /\ Begin(event)
  /\ saved_file' = None
  /\ encoded' = None
  /\ UNCHANGED <<original_image, filter_buttons, save_btn, status_label>>
  /\ IF original_image = None
     THEN Return("none") /\ UNCHANGED processed_image
     ELSE LET result == Transform(event, original_image, Fresh(Live))
          IN IF result.raised
             THEN Return("error") /\ UNCHANGED processed_image
             ELSE processed_image' = result.img /\ Display(result.img)

apply_black_white == ApplyFilter("black_white")

apply_blur == ApplyFilter("blur")

apply_sharpen == ApplyFilter("sharpen")

apply_cartoon == ApplyFilter("cartoon")

apply_edge_detection == ApplyFilter("edge_detection")

FilterEvents == {"black_white", "blur", "sharpen", "cartoon", "edge_detection"}

ClickBlackWhite ==
  IF filter_buttons = DISABLED THEN Begin("black_white") /\ Ignored ELSE apply_black_white

ClickBlur ==
  IF filter_buttons = DISABLED THEN Begin("blur") /\ Ignored ELSE apply_blur

ClickSharpen ==
  IF filter_buttons = DISABLED THEN Begin("sharpen") /\ Ignored ELSE apply_sharpen

ClickCartoon ==
  IF filter_buttons = DISABLED THEN Begin("cartoon") /\ Ignored ELSE apply_cartoon

ClickEdgeDetection ==
  IF filter_buttons = DISABLED THEN Begin("edge_detection") /\ Ignored
  ELSE apply_edge_detection

(***************************************************************************)
(* save_image.  encoded and saved_file describe the event being handled:   *)
(* encoded is the object whose save() was called, saved_file the file the  *)
(* write touched and the pixels it holds (None when the encoder failed and *)
(* the file holds no image).  Both are None when the event wrote nothing.  *)
(***************************************************************************)
\* save_image encoding original_image instead of processed_image.
save_original(file_path) ==
  /\ Begin("save")
  /\ UNCHANGED <<original_image, processed_image, filter_buttons, save_btn>>
  /\ IF processed_image = None
     THEN /\ Return("warning")
          /\ saved_file' = None
          /\ encoded' = None
          /\ UNCHANGED status_label
     ELSE IF file_path = Cancelled
     THEN /\ Return("none")
          /\ saved_file' = None
          /\ encoded' = None
          /\ UNCHANGED status_label
     ELSE LET written == Image_save(original_image, file_path)
          IN /\ encoded' = original_image
             /\ IF written.raised
                THEN /\ saved_file' = [path |-> file_path, data |-> None]
                     /\ Return("error")
                     /\ UNCHANGED status_label
                ELSE /\ saved_file' = [path |-> file_path, data |-> Pixels(written.img)]
                     /\ Return("info")
                     /\ status_label' = <<"Image saved", file_path>>

save_image(file_path) ==
  /\ Begin("save")
  /\ UNCHANGED <<original_image, processed_image, filter_buttons, save_btn>>
  /\ IF processed_image = None
     THEN /\ Return("warning")
          /\ saved_file' = None
          /\ encoded' = None
          /\ UNCHANGED status_label
     ELSE IF file_path = Cancelled
     THEN /\ Return("none")
          /\ saved_file' = None
          /\ encoded' = None
          /\ UNCHANGED status_label
     ELSE LET written == Image_save(processed_image, file_path)
          IN /\ encoded' = processed_image
             /\ IF written.raised
                THEN /\ saved_file' = [path |-> file_path, data |-> None]
                     /\ Return("error")
                     /\ UNCHANGED status_label
                ELSE /\ saved_file' = [path |-> file_path, data |-> Pixels(written.img)]
                     /\ Return("info")
                     /\ status_label' = <<"Image saved", file_path>>

ClickSave ==
  \E file_path \in SavePaths \cup {Cancelled} :
    IF save_btn = DISABLED THEN Begin("save") /\ Ignored ELSE save_image(file_path)

reset_image ==
  /\ Begin("reset")
  /\ saved_file' = None
  /\ encoded' = None
  /\ UNCHANGED <<original_image, filter_buttons, save_btn, status_label>>
  /\ IF original_image = None
     THEN Return("none") /\ UNCHANGED processed_image
     ELSE LET copy == Image_copy(original_image, Fresh(Live))
          IN IF copy.raised
             THEN Escape /\ UNCHANGED processed_image
             ELSE processed_image' = copy.img /\ Display(original_image)

ClickReset ==
  IF reset_btn = DISABLED THEN Begin("reset") /\ Ignored ELSE reset_image

(***************************************************************************)
(* display_image_on_canvas(arg), with the canvas reporting w x h.          *)
(***************************************************************************)
\* display_image_on_canvas shrinking its argument in place (image.thumbnail)
\* instead of resizing a copy: the handle it was given changes size.
display_thumbnail(w, h) ==
  /\ pc = "display"
  /\ canvas_width' = w
  /\ canvas_height' = h
  /\ LET cw == EffectiveWidth(w)
         ch == EffectiveHeight(h)
         scale == Scale(cw, ch, arg.size[1], arg.size[2])
         new_width == IntTimes(arg.size[1], scale)
         new_height == IntTimes(arg.size[2], scale)
         Shrunk(image) ==
           IF image # None /\ image.handle = arg.handle
           THEN [image EXCEPT !.size = <<new_width, new_height>>]
           ELSE image
     IN   IF ~arg.ok \/ new_width < 1 \/ new_height < 1
          THEN /\ raised' = TRUE
               /\ UNCHANGED <<display_image, canvas_image, original_image,
                              processed_image>>
          ELSE /\ raised' = FALSE
               /\ original_image' = Shrunk(original_image)
               /\ processed_image' = Shrunk(processed_image)
               /\ display_image' = [pixels |-> Pixels(arg),
                                    size |-> <<new_width, new_height>>]
               /\ canvas_image' = [image |-> display_image',
                                   x |-> cw \div 2, y |-> ch \div 2]
  /\ pc' = "resume"
  /\ UNCHANGED <<upload_btn, save_btn, reset_btn,
                 filter_buttons, status_label, dialog, escaped, saved_file,
                 encoded, last, arg, pre>>

display_image_on_canvas(w, h) ==
  /\ pc = "display"
  /\ canvas_width' = w
  /\ canvas_height' = h
  /\ LET cw == EffectiveWidth(w)
         ch == EffectiveHeight(h)
         scale == Scale(cw, ch, arg.size[1], arg.size[2])
         new_width == IntTimes(arg.size[1], scale)
         new_height == IntTimes(arg.size[2], scale)
     IN   IF ~arg.ok \/ new_width < 1 \/ new_height < 1
          THEN raised' = TRUE /\ UNCHANGED <<display_image, canvas_image>>
          ELSE /\ raised' = FALSE
               /\ display_image' = [pixels |-> Pixels(arg),
                                    size |-> <<new_width, new_height>>]
               /\ canvas_image' = [image |-> display_image',
                                   x |-> cw \div 2, y |-> ch \div 2]
  /\ pc' = "resume"
  /\ UNCHANGED <<original_image, processed_image, upload_btn, save_btn, reset_btn,
                 filter_buttons, status_label, dialog, escaped, saved_file,
                 encoded, last, arg, pre>>

\* What the canvas widget reports: 1 before its first layout, then its size.
WinfoSizes == {<<1, 1>>, <<900, 600>>}

Render == \E size \in WinfoSizes : display_image_on_canvas(size[1], size[2])

(***************************************************************************)
(* The rest of each handler once display_image_on_canvas has returned or   *)
(* raised.                                                                 *)
(***************************************************************************)
Resume ==
  /\ pc = "resume"
  /\ pc' = "idle"
  /\ arg' = None
  /\ raised' = FALSE
  /\ UNCHANGED <<original_image, processed_image, display_image, canvas_image,
                 canvas_width, canvas_height, upload_btn, save_btn, reset_btn,
                 filter_buttons, saved_file, encoded, last>>
  /\ pre' = None

upload_image_resume ==
  /\ Resume
  /\ last = "upload"
  /\ escaped' = FALSE
  /\ IF raised
     THEN dialog' = "error" /\ UNCHANGED status_label
     ELSE dialog' = "none" /\ status_label' = <<"Image loaded", original_image.src>>

apply_filter_resume ==
  /\ Resume
  /\ last \in FilterEvents
  /\ escaped' = FALSE
  /\ IF raised
     THEN dialog' = "error" /\ UNCHANGED status_label
     ELSE dialog' = "none" /\ status_label' = <<"Filter applied", last>>

reset_image_resume ==
  /\ Resume
  /\ last = "reset"
  /\ dialog' = "none"
  /\ IF raised
     THEN escaped' = TRUE /\ UNCHANGED status_label
     ELSE escaped' = FALSE /\ status_label' = <<"Image reset to original">>

Next ==
  \/ ClickUpload
  \/ ClickSave
  \/ ClickReset
  \/ ClickBlackWhite
  \/ ClickBlur
  \/ ClickSharpen
  \/ ClickCartoon
  \/ ClickEdgeDetection
  \/ Render
  \/ upload_image_resume
  \/ apply_filter_resume
  \/ reset_image_resume

Spec == Init /\ [][Next]_vars

(***************************************************************************)
(* Preview scaling over a range of image and canvas sizes: the window has  *)
(* just loaded an iw x ih image (upload_image has assigned both handles,   *)
(* enabled the controls and is about to call display_image_on_canvas) and  *)
(* the canvas may report any size.                                         *)
(***************************************************************************)
MaxImageDim == 24
MaxFit == 6

ImageDims == (1..MaxImageDim) \cup {490, 790, 4000}
CanvasDims == {1} \cup ((Margin - 1)..(Margin + MaxFit))

Sized(iw, ih, h) ==
  [handle |-> h, src |-> "image", ops |-> <<>>, mode |-> "RGB",
   size |-> <<iw, ih>>, ok |-> TRUE]

InitScale ==
  /\ \E iw \in ImageDims, ih \in ImageDims :
       /\ original_image = Sized(iw, ih, 1)
       /\ processed_image = Sized(iw, ih, 2)
       /\ arg = Sized(iw, ih, 1)
  /\ display_image = None
  /\ canvas_image = None
  /\ canvas_width = 1
  /\ canvas_height = 1
  /\ upload_btn = NORMAL
  /\ save_btn = NORMAL
  /\ reset_btn = NORMAL
  /\ filter_buttons = NORMAL
  /\ status_label = <<"Please upload an image to get started">>
  /\ dialog = "none"
  /\ escaped = FALSE
  /\ saved_file = None
  /\ encoded = None
  /\ last = "upload"
  /\ pc = "display"
  /\ raised = FALSE
  /\ pre = [original_image |-> None, processed_image |-> None,
            display_image |-> None, canvas_image |-> None,
            filter_buttons |-> DISABLED, save_btn |-> DISABLED]

RenderScale ==
  \E w \in CanvasDims, h \in CanvasDims : display_image_on_canvas(w, h)

NextScale ==
  \/ RenderScale
  \/ upload_image_resume

SpecScale == InitScale /\ [][NextScale]_vars

(***************************************************************************)
(* Properties.                                                             *)
(***************************************************************************)
Idle == pc = "idle"

SamePixels(a, b) == Pixels(a) = Pixels(b)

\* The state the running handler started from (the current state when no
\* handler is running).
Before == IF pc = "idle" THEN Snapshot ELSE pre

\* The step returns from the handler of event set E to the event loop.
Returns(E) == last' \in E /\ pc' = "idle"

\* Empty: nothing loaded yet.  Loaded: an image is present and the filter and
\* save controls are enabled.
Empty == original_image = None /\ processed_image = None
Loaded == original_image # None /\ filter_buttons = NORMAL /\ save_btn = NORMAL

\* image is the original's pixels, or one of the five transforms of them.
DerivedFrom(image, original) ==
  \/ SamePixels(image, original)
  \/ \E r \in {black_white(original, 1), blur(original, 1), sharpen(original, 1),
               cartoon(original, 1), edge_detection(original, 1)} :
       ~r.raised /\ SamePixels(image, r.img)

\* C1: between events, a non-empty Processed Image is a copy of the current
\* Original Image or exactly one filter applied to the current Original Image.
C1_ProcessedDerivedFromOriginal ==
  (Idle /\ processed_image # None) =>
     original_image # None /\ DerivedFrom(processed_image, original_image)

\* C2: an upload that ends in an error dialog leaves Original Image, Processed
\* Image, the preview and the enabled state of the controls as they were
\* before the upload.
C2_FailedUploadLeavesStateUntouched ==
  [][(Returns({"upload"}) /\ dialog' = "error") =>
       /\ original_image' = Before.original_image
       /\ processed_image' = Before.processed_image
       /\ display_image' = Before.display_image
       /\ canvas_image' = Before.canvas_image
       /\ filter_buttons' = Before.filter_buttons
       /\ save_btn' = Before.save_btn]_vars

\* C3: a filter handler that ends in an error dialog (a failure in the
\* transform or in the re-render) leaves Processed Image exactly as it was
\* before the handler ran.
C3_FailedFilterLeavesProcessed ==
  [][(Returns(FilterEvents) /\ dialog' = "error") =>
       processed_image' = Before.processed_image]_vars

\* C4: in the Loaded state, when reset returns, Processed Image has the pixels
\* of the current Original Image and is another object than it.
C4_ResetRestoresOriginal ==
  [][(Returns({"reset"}) /\ Loaded) =>
       /\ processed_image' # None
       /\ SamePixels(processed_image', original_image')
       /\ processed_image'.handle # original_image'.handle]_vars

\* C5: Original Image changes only in the step of upload_image that assigns
\* it; no filter handler, reset_image, save_image or display_image_on_canvas
\* step changes it, and display_image_on_canvas changes neither image.
C5_OriginalChangesOnlyInUpload ==
  [][/\ (original_image' # original_image => pc = "idle" /\ last' = "upload")
     /\ (pc = "display" => /\ original_image' = original_image
                           /\ processed_image' = processed_image)]_vars

\* C5 witness: display_image_on_canvas has raised inside a filter handler
\* while an Original Image is present.
C5_Witness ==
  pc = "resume" /\ raised /\ last \in FilterEvents /\ original_image # None

\* C6: in the Empty state only the upload control is enabled.
C6_OnlyUploadEnabledWhenEmpty ==
  Empty => /\ upload_btn = NORMAL
           /\ save_btn = DISABLED
           /\ reset_btn = DISABLED
           /\ filter_buttons = DISABLED

\* C7: no handler lets an exception escape.
C7_NoExceptionEscapes == ~escaped

\* C10: between events, the canvas shows a rendering of the pixels of the
\* current Processed Image, and nothing while there is no Processed Image.
C10_PreviewShowsProcessed ==
  Idle => IF processed_image = None
          THEN canvas_image = None
          ELSE /\ canvas_image # None
               /\ canvas_image.image.pixels = Pixels(processed_image)

\* display_image_on_canvas has just returned a preview.
Rendered == pc = "resume" /\ ~raised

FitsCanvas ==
  /\ display_image.size[1] <= EffectiveWidth(canvas_width) - Margin
  /\ display_image.size[2] <= EffectiveHeight(canvas_height) - Margin

LargerThanCanvas ==
  /\ arg.size[1] > EffectiveWidth(canvas_width)
  /\ arg.size[2] > EffectiveHeight(canvas_height)

\* Each side is the exact scaled side less at most one pixel:
\* -ih <= nw * ih - nh * iw <= iw.
AspectWithinRounding ==
  LET d == display_image.size[1] * arg.size[2] - display_image.size[2] * arg.size[1]
  IN -arg.size[2] <= d /\ d <= arg.size[1]

====
